---- MODULE Spec2Model ----
(***************************************************************************)
(* A model of one invocation of the `md` command-line client               *)
(* (dkdc-md-cli): argument parsing, credential resolution, client          *)
(* construction, the confirmation gate, the network calls of each command  *)
(* and what is written to the standard streams.                            *)
(*                                                                         *)
(* Strings the program inspects character by character (tokens, stdin      *)
(* content, confirmation answers) are sequences of one-character strings.  *)
(* JSON values are records tagged by t: "null", "str", "num", "float",     *)
(* "arr" or "obj"; an object holds a function from its keys to values.     *)
(***************************************************************************)
EXTENDS Integers, Sequences, FiniteSets, TLC

VARIABLES
    pc,          \* position of the process in run()/main()
    argv,        \* the raw command line
    cli,         \* the parsed Cli (None until parsing succeeded)
    env,         \* the process environment: name -> Result of std::env::var
    isTerminal,  \* std::io::stdin().is_terminal()
    envReads,    \* the environment names looked up so far
    stdinReads,  \* the blocking reads of stdin made so far, in order
    token,       \* the resolved credential (None until resolved)
    client,      \* the MotherduckClient (None until built)
    current,     \* duckling set: the configuration fetched by the GET
    merged,      \* duckling set: the (rw, rs, flock) chosen by the merge
    calls,       \* the network calls made so far, in order
    replies,     \* what the network answered to each call, in order
    results,     \* the Result each call returned to its handler, in order
    stdout,      \* what was written to standard output, in order
    stderr,      \* what was written to standard error, in order
    exitCode     \* the process exit code (None while running)

vars == <<pc, argv, cli, env, isTerminal, envReads, stdinReads, token, client,
          current, merged, calls, replies, results, stdout,
          stderr, exitCode>>

-----------------------------------------------------------------------------
\* Bounds of the model.

\* Longest --token value enumerated.
MaxTokenLen == 3
\* Longest stdin content enumerated for `--token -`.
MaxStdinLen == 3
\* Longest confirmation answer enumerated (without its line terminator).
MaxAnswerLen == 3
\* Longest identifier (username, token id) enumerated over every character.
MaxIdLen == 2

-----------------------------------------------------------------------------
\* Option and Result values.

None == [some |-> FALSE]
Some(x) == [some |-> TRUE, v |-> x]
Ok(x) == [ok |-> TRUE, v |-> x]
Err(e) == [ok |-> FALSE, e |-> e]

\* One frame of an anyhow error chain: a message and the values formatted
\* into it. A chain is a sequence of frames, outermost context first.
Frame(msg, arg) == [msg |-> msg, arg |-> arg]
Msgs(chain) == {chain[i].msg : i \in DOMAIN chain}

SeqsUpTo(S, n) == UNION {[1..k -> S] : k \in 0..n}

-----------------------------------------------------------------------------
\* str::trim and str::to_lowercase on sequences of characters.

IsWhitespace(c) == c \in {" ", "\n", "\t", "\r"}

RECURSIVE TrimStart(_)
TrimStart(s) ==
    IF s = <<>> THEN <<>>
    ELSE IF IsWhitespace(Head(s)) THEN TrimStart(Tail(s))
    ELSE s

RECURSIVE TrimEnd(_)
TrimEnd(s) ==
    IF s = <<>> THEN <<>>
    ELSE IF IsWhitespace(s[Len(s)]) THEN TrimEnd(SubSeq(s, 1, Len(s) - 1))
    ELSE s

Trim(s) == TrimEnd(TrimStart(s))

LowerChar(c) ==
    CASE c = "Y" -> "y"
      [] c = "E" -> "e"
      [] c = "S" -> "s"
      [] c = "N" -> "n"
      [] OTHER -> c

ToLowercase(s) == [i \in DOMAIN s |-> LowerChar(s[i])]

-----------------------------------------------------------------------------
\* auth.rs: credential resolution.

ENV_VARS == <<"motherduck_token", "MOTHERDUCK_TOKEN",
              "motherduck_api_key", "MOTHERDUCK_API_KEY">>

\* The loop of resolve_token_with from position i on: the result, and the
\* names it looked up.
RECURSIVE scan_env(_, _)
scan_env(env_var, i) ==
    IF i > Len(ENV_VARS)
    THEN [result |-> Err(<<Frame("No MotherDuck token found. Set one of", ENV_VARS)>>),
          consulted |-> {}]
    ELSE LET val == env_var[ENV_VARS[i]]
         IN  IF val.ok /\ val.v # <<>>
             THEN [result |-> Ok(val.v), consulted |-> {ENV_VARS[i]}]
             ELSE LET rest == scan_env(env_var, i + 1)
                  IN  [result |-> rest.result,
                       consulted |-> rest.consulted \cup {ENV_VARS[i]}]

\* resolve_token_with without the emptiness test: the first name that is set
\* wins, empty or not.
resolve_token_with_first_set(env_var) ==
    LET set == {i \in DOMAIN ENV_VARS : env_var[ENV_VARS[i]].ok}
        first == CHOOSE i \in set : \A j \in set : i <= j
    IN  IF set = {} THEN scan_env(env_var, 1)
        ELSE [result |-> Ok(env_var[ENV_VARS[first]].v),
              consulted |-> {ENV_VARS[i] : i \in 1..first}]

resolve_token_with(env_var) == scan_env(env_var, 1)

\* read_token_from_reader that tests the trimmed content and returns the
\* content as read.
read_token_from_reader_untrimmed(reader) ==
    IF ~reader.ok
    THEN Err(<<Frame("failed to read token from stdin", <<>>)>> \o reader.e)
    ELSE IF Trim(reader.v) = <<>>
         THEN Err(<<Frame("stdin was empty; expected a token", <<>>)>>)
         ELSE Ok(reader.v)

\* reader: the outcome of read_to_string on stdin, Ok(content) or Err(io).
read_token_from_reader(reader) ==
    IF ~reader.ok
    THEN Err(<<Frame("failed to read token from stdin", <<>>)>> \o reader.e)
    ELSE LET trimmed == Trim(reader.v)
         IN  IF trimmed = <<>>
             THEN Err(<<Frame("stdin was empty; expected a token", <<>>)>>)
             ELSE Ok(trimmed)

\* resolve_token_or_with where an empty --token value falls through to the
\* environment.
resolve_token_or_with_fallthrough(cli_token, env_var, stdin) ==
    IF cli_token.some /\ cli_token.v = <<"-">>
    THEN [result |-> read_token_from_reader(stdin),
          consulted |-> {}, readStdin |-> TRUE]
    ELSE IF cli_token.some /\ Trim(cli_token.v) # <<>>
    THEN [result |-> Ok(Trim(cli_token.v)), consulted |-> {}, readStdin |-> FALSE]
    ELSE LET r == resolve_token_with(env_var)
         IN  [result |-> r.result, consulted |-> r.consulted, readStdin |-> FALSE]

\* The result, the environment names consulted and whether stdin was read.
resolve_token_or_with(cli_token, env_var, stdin) ==
    IF cli_token.some
    THEN IF cli_token.v = <<"-">>
         THEN [result |-> read_token_from_reader(stdin),
               consulted |-> {}, readStdin |-> TRUE]
         ELSE LET trimmed == Trim(cli_token.v)
              IN  [result |-> IF trimmed = <<>>
                              THEN Err(<<Frame("--token value must not be empty", <<>>)>>)
                              ELSE Ok(trimmed),
                   consulted |-> {}, readStdin |-> FALSE]
    ELSE LET r == resolve_token_with(env_var)
         IN  [result |-> r.result, consulted |-> r.consulted, readStdin |-> FALSE]

-----------------------------------------------------------------------------
\* serde_json::Value.

\* Numbers. The model checker's integers have 32 bits, so a JSON number, which
\* may need 64, is a pair <<hi, lo>> standing for hi * 2^16 + lo, 0 <= lo < 2^16.
Wide(n) == <<n \div 65536, n % 65536>>
WideHL(hi, lo) == <<hi, lo>>
IsNonNegative(w) == w[1] >= 0

Null == [t |-> "null"]
Str(s) == [t |-> "str", s |-> s]
\* An integer number (serde_json's PosInt / NegInt), w a wide integer.
Num(w) == [t |-> "num", n |-> w]
\* A floating-point number (serde_json's Float), w its integral part.
Float(w) == [t |-> "float", x |-> w]
Arr(items) == [t |-> "arr", a |-> items]
Obj(fields) == [t |-> "obj", o |-> fields]

\* value[key]: Null when value is no object or has no such key.
Index(value, key) ==
    IF value.t = "obj" /\ key \in DOMAIN value.o THEN value.o[key] ELSE Null

\* value.get(key)
Get(value, key) ==
    IF value.t = "obj" /\ key \in DOMAIN value.o THEN Some(value.o[key]) ELSE None

as_str(value) == IF value.t = "str" THEN Some(value.s) ELSE None

as_array(value) == IF value.t = "arr" THEN Some(value.a) ELSE None

\* Some for a non-negative integer number. (Every wide integer of the model
\* is below 2^64, so the upper end of u64 is out of its reach.)
as_u64(value) ==
    IF value.t = "num" /\ IsNonNegative(value.n) THEN Some(value.n) ELSE None

\* u32::MAX is 2^32 - 1: the largest hi of a u32 is 2^16 - 1.
U32_MAX_HI == 65535

\* u32::try_from(v).ok(), v a u64
u32_try_from(v) == IF v[1] <= U32_MAX_HI THEN Some(v) ELSE None

\* The text of a response body: <<"json", value>> is text that decodes as
\* JSON to value, <<"raw", s>> is text s that does not decode as JSON.
JsonText(value) == <<"json", value>>
RawText(s) == <<"raw", s>>

\* serde_json::from_str::<Value>(text)
from_str(text) ==
    IF text[1] = "json" THEN Ok(text[2]) ELSE Err(<<Frame("invalid JSON", <<>>)>>)

-----------------------------------------------------------------------------
\* client.rs

\* The characters of PATH_SEGMENT that the model's identifiers can hold,
\* each with its escape.
PATH_SEGMENT ==
    [c \in {" ", "#", "%", "/", "?", "\n", "\t"} |->
        CASE c = " "  -> <<"%", "2", "0">>
          [] c = "#"  -> <<"%", "2", "3">>
          [] c = "%"  -> <<"%", "2", "5">>
          [] c = "/"  -> <<"%", "2", "F">>
          [] c = "?"  -> <<"%", "3", "F">>
          [] c = "\n" -> <<"%", "0", "A">>
          [] c = "\t" -> <<"%", "0", "9">>]

\* utf8_percent_encode works on the bytes of the UTF-8 encoding and escapes
\* every byte that is not ASCII, whatever the set: the characters of the
\* model that are not ASCII, each with the escapes of its bytes.
NON_ASCII == [c \in {"é"} |-> <<"%", "C", "3", "%", "A", "9">>]

\* encode_path with a set that lacks '/'.
RECURSIVE encode_path_keeps_slash(_)
encode_path_keeps_slash(s) ==
    IF s = <<>> THEN <<>>
    ELSE (IF Head(s) \in DOMAIN PATH_SEGMENT \ {"/"}
          THEN PATH_SEGMENT[Head(s)]
          ELSE IF Head(s) \in DOMAIN NON_ASCII
          THEN NON_ASCII[Head(s)]
          ELSE <<Head(s)>>) \o encode_path_keeps_slash(Tail(s))

RECURSIVE encode_path(_)
encode_path(s) ==
    IF s = <<>> THEN <<>>
    ELSE (IF Head(s) \in DOMAIN PATH_SEGMENT
          THEN PATH_SEGMENT[Head(s)]
          ELSE IF Head(s) \in DOMAIN NON_ASCII
          THEN NON_ASCII[Head(s)]
          ELSE <<Head(s)>>) \o encode_path(Tail(s))

\* with_context: a failing result gets one more frame in front.
with_context(result, msg, arg) ==
    IF result.ok THEN result ELSE Err(<<Frame(msg, arg)>> \o result.e)

\* parse_response that takes every body that decodes for a success.
parse_response_any_status(status, text) ==
    LET decoded == from_str(text)
        is2xx   == status >= 200 /\ status < 300
    IN  IF decoded.ok
        THEN Ok(decoded.v)
        ELSE IF is2xx
             THEN Ok(Str(text))
             ELSE Err(<<Frame("API error", <<status, text>>)>>)

\* parse_response that fails on a 2xx body that does not decode.
parse_response_json_only(status, text) ==
    LET decoded == from_str(text)
        is2xx   == status >= 200 /\ status < 300
    IN  IF decoded.ok
        THEN IF is2xx
             THEN Ok(decoded.v)
             ELSE LET m == Get(decoded.v, "message")
                      message == IF m.some /\ as_str(m.v).some
                                 THEN RawText(as_str(m.v).v) ELSE text
                  IN  Err(<<Frame("API error", <<status, message>>)>>)
        ELSE Err(<<Frame("API error", <<status, text>>)>>)

\* parse_response that never looks for a `message` in the body.
parse_response_raw_message(status, text) ==
    LET decoded == from_str(text)
        is2xx   == status >= 200 /\ status < 300
    IN  IF is2xx
        THEN IF decoded.ok THEN Ok(decoded.v) ELSE Ok(Str(text))
        ELSE Err(<<Frame("API error", <<status, text>>)>>)

\* The error message is a &str either way: the characters of the body's
\* `message` string, or the whole body.
parse_response(status, text) ==
    LET decoded == from_str(text)
        is2xx   == status >= 200 /\ status < 300
    IN  IF decoded.ok
        THEN IF is2xx
             THEN Ok(decoded.v)
             ELSE LET m == Get(decoded.v, "message")
                      message == IF m.some /\ as_str(m.v).some
                                 THEN RawText(as_str(m.v).v) ELSE text
                  IN  Err(<<Frame("API error", <<status, message>>)>>)
        ELSE IF is2xx
             THEN Ok(Str(text))
             ELSE Err(<<Frame("API error", <<status, text>>)>>)

\* resp: what the server and the network answer to one call.
handle_response(resp) ==
    IF ~resp.readable
    THEN Err(<<Frame("failed to read response body", <<>>), Frame("io error", <<>>)>>)
    ELSE parse_response(resp.status, resp.text)

\* The four request methods: the call that is sent, the answer to it, and
\* its result.
send(method, path, body, resp) ==
    [call   |-> [method |-> method, path |-> path, body |-> body],
     reply  |-> resp,
     result |-> IF ~resp.transport
                THEN Err(<<Frame("request failed", <<>>), Frame("transport error", <<>>)>>)
                ELSE with_context(handle_response(resp), method, path)]

get(path, resp) == send("GET", path, None, resp)
delete(path, resp) == send("DELETE", path, None, resp)
post_json(path, body, resp) == send("POST", path, Some(body), resp)
put_json(path, body, resp) == send("PUT", path, Some(body), resp)

\* The fixed path literals, as characters.
V1_USERS == <<"/", "v", "1", "/", "u", "s", "e", "r", "s">>
TOKENS == <<"/", "t", "o", "k", "e", "n", "s">>
INSTANCES == <<"/", "i", "n", "s", "t", "a", "n", "c", "e", "s">>
V1_ACTIVE_ACCOUNTS == <<"/", "v", "1", "/", "a", "c", "t", "i", "v", "e", "_",
                        "a", "c", "c", "o", "u", "n", "t", "s">>

create_user(username, resp) ==
    post_json(V1_USERS, Obj([k \in {"username"} |-> Str(username)]), resp)

delete_user(username, resp) ==
    delete(V1_USERS \o <<"/">> \o encode_path(username), resp)

list_tokens(username, resp) ==
    get(V1_USERS \o <<"/">> \o encode_path(username) \o TOKENS, resp)

\* CreateTokenRequest: ttl and token_type are left out when None.
create_token(username, name, ttl, token_type, resp) ==
    LET keys == {"name"} \cup (IF ttl.some THEN {"ttl"} ELSE {})
                         \cup (IF token_type.some THEN {"token_type"} ELSE {})
        body == Obj([k \in keys |->
                       CASE k = "name" -> Str(name)
                         [] k = "ttl" -> Num(Wide(ttl.v))
                         [] k = "token_type" -> Str(token_type.v)])
    IN  post_json(V1_USERS \o <<"/">> \o encode_path(username) \o TOKENS, body, resp)

delete_token(username, token_id, resp) ==
    delete(V1_USERS \o <<"/">> \o encode_path(username) \o TOKENS \o <<"/">>
             \o encode_path(token_id), resp)

get_duckling_config(username, resp) ==
    get(V1_USERS \o <<"/">> \o encode_path(username) \o INSTANCES, resp)

\* The JSON body of the PUT.
config_body(rw_size, rs_size, rs_flock_size) ==
    Obj([c \in {"config"} |->
        Obj([k \in {"read_write", "read_scaling"} |->
            IF k = "read_write"
            THEN Obj([f \in {"instance_size"} |-> Str(rw_size)])
            ELSE Obj([f \in {"instance_size", "flock_size"} |->
                        IF f = "instance_size" THEN Str(rs_size)
                        ELSE Num(rs_flock_size)])])])

set_duckling_config(username, rw_size, rs_size, rs_flock_size, resp) ==
    put_json(V1_USERS \o <<"/">> \o encode_path(username) \o INSTANCES,
             config_body(rw_size, rs_size, rs_flock_size), resp)

list_active_accounts(resp) == get(V1_ACTIVE_ACCOUNTS, resp)

\* MotherduckClient::new
new_client(tok) ==
    IF tok = <<>>
    THEN Err(<<Frame("MotherDuck API token must not be empty", <<>>)>>)
    ELSE Ok([bearer |-> <<"B", "e", "a", "r", "e", "r", " ">> \o tok])

-----------------------------------------------------------------------------
\* cli.rs: argument parsing.

INSTANCE_SIZES == {"Pulse", "Standard", "Jumbo", "Mega", "Giga"}

\* InstanceSize::as_api_str
as_api_str(size) ==
    CASE size = "Pulse" -> "pulse"
      [] size = "Standard" -> "standard"
      [] size = "Jumbo" -> "jumbo"
      [] size = "Mega" -> "mega"
      [] size = "Giga" -> "giga"

\* TokenType::as_api_str
token_type_as_api_str(token_type) ==
    CASE token_type = "ReadWrite" -> "read_write"
      [] token_type = "ReadScaling" -> "read_scaling"

\* #[arg(value_enum)] on an InstanceSize: the variant a word names, if any.
parse_instance_size(word) ==
    IF \E size \in INSTANCE_SIZES : as_api_str(size) = word
    THEN Some(CHOOSE size \in INSTANCE_SIZES : as_api_str(size) = word)
    ELSE None

\* The ranges of the value parsers.
FLOCK_SIZE_MIN == 0
FLOCK_SIZE_MAX == 64
TTL_MIN == 300
TTL_MAX == 31536000

\* An optional size argument is well-formed when absent or a variant's name.
size_arg_ok(arg) == arg.some => parse_instance_size(arg.v).some

\* The group "overrides" without required(true).
overrides_group_optional(a) == TRUE

\* ArgGroup "overrides": required(true), multiple(true).
overrides_group_ok(a) == a.rw_size.some \/ a.rs_size.some \/ a.flock_size.some

\* Whether clap accepts the command line.
args_ok(a) ==
    CASE a.command = "duckling_set" ->
            /\ overrides_group_ok(a)
            /\ size_arg_ok(a.rw_size)
            /\ size_arg_ok(a.rs_size)
            /\ a.flock_size.some =>
                   (a.flock_size.v >= FLOCK_SIZE_MIN /\ a.flock_size.v <= FLOCK_SIZE_MAX)
      [] a.command = "token_create" ->
            a.ttl.some => (a.ttl.v >= TTL_MIN /\ a.ttl.v <= TTL_MAX)
      [] OTHER -> TRUE

\* Cli::parse_from on an accepted command line: the words become values.
parsed(a) ==
    [a EXCEPT !.rw_size = IF a.rw_size.some THEN parse_instance_size(a.rw_size.v) ELSE None,
              !.rs_size = IF a.rs_size.some THEN parse_instance_size(a.rs_size.v) ELSE None,
              !.flock_size = IF a.flock_size.some THEN Some(Wide(a.flock_size.v)) ELSE None]

-----------------------------------------------------------------------------
\* cli.rs: helpers and rendering. Standard output is a sequence of entries,
\* one per println!.

display_field(value, key) ==
    LET s == as_str(Index(value, key)) IN IF s.some THEN s.v ELSE "-"

extract_str(value, key) == as_str(Index(value, key))

println(data) == <<[fmt |-> "line", data |-> data]>>

print_json(value) == <<[fmt |-> "json", data |-> value]>>

\* The header line and one line per row; nothing for no rows. (Column
\* padding is not modelled.)
print_table(headers, rows) ==
    IF rows = <<>> THEN <<>>
    ELSE println(headers) \o [i \in DOMAIN rows |-> [fmt |-> "line", data |-> rows[i]]]

print_duckling_config(value) ==
    LET rw == display_field(Index(value, "read_write"), "instance_size")
        rs == display_field(Index(value, "read_scaling"), "instance_size")
        n == as_u64(Index(Index(value, "read_scaling"), "flock_size"))
        flock == IF n.some THEN Some(n.v) ELSE None
    IN  println(<<"read_write", rw>>) \o println(<<"read_scaling", rs, "flock_size", flock>>)

render_create_user(mode, result) ==
    IF mode = "Json" THEN print_json(result)
    ELSE println(display_field(result, "username"))

render_delete(mode, result) ==
    IF mode = "Json" THEN print_json(result) ELSE <<>>

token_row(t) ==
    LET e == as_str(Index(t, "expire_at"))
    IN  <<display_field(t, "id"), display_field(t, "name"),
          display_field(t, "token_type"),
          IF e.some /\ e.v # "" THEN e.v ELSE "never">>

render_list_tokens(mode, result) ==
    IF mode = "Json" THEN print_json(result)
    ELSE LET tokens == as_array(Index(result, "tokens"))
         IN  IF tokens.some
             THEN print_table(<<"ID", "NAME", "TYPE", "EXPIRES">>,
                              [i \in DOMAIN tokens.v |-> token_row(tokens.v[i])])
             ELSE <<>>

render_create_token(mode, result) ==
    IF mode = "Json" THEN print_json(result)
    ELSE println(display_field(result, "token"))

render_duckling(mode, result) ==
    IF mode = "Json" THEN print_json(result) ELSE print_duckling_config(result)

account_row(acct) ==
    LET ds == as_array(Index(acct, "ducklings"))
    IN  <<display_field(acct, "username"),
          IF ds.some
          THEN [i \in DOMAIN ds.v |->
                   <<display_field(ds.v[i], "type"), display_field(ds.v[i], "status")>>]
          ELSE <<>> >>

render_list_active(mode, result) ==
    IF mode = "Json" THEN print_json(result)
    ELSE LET accounts == as_array(Index(result, "accounts"))
         IN  IF accounts.some
             THEN print_table(<<"USERNAME", "DUCKLINGS">>,
                              [i \in DOMAIN accounts.v |-> account_row(accounts.v[i])])
             ELSE <<>>

-----------------------------------------------------------------------------
\* cli.rs: the confirmation gate and the merge of duckling set.

\* confirm with a prompt that takes the empty answer for a yes.
confirm_empty_is_yes(yes, is_terminal, flushed, line) ==
    IF yes \/ ~is_terminal
    THEN [prompted |-> FALSE, read |-> FALSE, result |-> Ok(<<>>)]
    ELSE IF ~flushed
    THEN [prompted |-> TRUE, read |-> FALSE,
          result |-> Err(<<Frame("failed to flush stderr", <<>>), Frame("io error", <<>>)>>)]
    ELSE IF ~line.ok
    THEN [prompted |-> TRUE, read |-> TRUE,
          result |-> Err(<<Frame("failed to read confirmation", <<>>)>> \o line.e)]
    ELSE LET answer == ToLowercase(Trim(line.v))
         IN  [prompted |-> TRUE, read |-> TRUE,
              result |-> IF answer = <<>> \/ answer = <<"y">> \/ answer = <<"y", "e", "s">>
                         THEN Ok(<<>>)
                         ELSE Err(<<Frame("aborted", <<>>)>>)]

\* confirm that auto-confirms on --yes alone and prompts whatever stdin is.
confirm_ignores_terminal(yes, is_terminal, flushed, line) ==
    IF yes
    THEN [prompted |-> FALSE, read |-> FALSE, result |-> Ok(<<>>)]
    ELSE IF ~flushed
    THEN [prompted |-> TRUE, read |-> FALSE,
          result |-> Err(<<Frame("failed to flush stderr", <<>>), Frame("io error", <<>>)>>)]
    ELSE IF ~line.ok
    THEN [prompted |-> TRUE, read |-> TRUE,
          result |-> Err(<<Frame("failed to read confirmation", <<>>)>> \o line.e)]
    ELSE LET answer == ToLowercase(Trim(line.v))
         IN  [prompted |-> TRUE, read |-> TRUE,
              result |-> IF answer = <<"y">> \/ answer = <<"y", "e", "s">>
                         THEN Ok(<<>>)
                         ELSE Err(<<Frame("aborted", <<>>)>>)]

\* confirm(prompt, yes): whether the prompt was written, whether a line was read
\* from stdin, and the result. flushed: whether flushing stderr succeeded;
\* line: the outcome of read_line, Ok(the line with its terminator) or Err(io).
confirm(yes, is_terminal, flushed, line) ==
    IF yes \/ ~is_terminal
    THEN [prompted |-> FALSE, read |-> FALSE, result |-> Ok(<<>>)]
    ELSE IF ~flushed
    THEN [prompted |-> TRUE, read |-> FALSE,
          result |-> Err(<<Frame("failed to flush stderr", <<>>), Frame("io error", <<>>)>>)]
    ELSE IF ~line.ok
    THEN [prompted |-> TRUE, read |-> TRUE,
          result |-> Err(<<Frame("failed to read confirmation", <<>>)>> \o line.e)]
    ELSE LET answer == ToLowercase(Trim(line.v))
         IN  [prompted |-> TRUE, read |-> TRUE,
              result |-> IF answer = <<"y">> \/ answer = <<"y", "e", "s">>
                         THEN Ok(<<>>)
                         ELSE Err(<<Frame("aborted", <<>>)>>)]

missing(field) == Err(<<Frame("current config missing", <<field>>)>>)

\* merge_overrides with the read-scaling size taken from --rw-size.
merge_overrides_rs_from_rw(rw_size, rs_size, flock_size, cur) ==
    LET rw == IF rw_size.some THEN Some(as_api_str(rw_size.v))
              ELSE extract_str(Index(cur, "read_write"), "instance_size")
        rs == IF rw_size.some THEN Some(as_api_str(rw_size.v))
              ELSE extract_str(Index(cur, "read_scaling"), "instance_size")
        fetched == as_u64(Index(Index(cur, "read_scaling"), "flock_size"))
        flock == IF flock_size.some THEN flock_size
                 ELSE IF fetched.some THEN u32_try_from(fetched.v) ELSE None
    IN  IF ~rw.some THEN missing("read_write.instance_size")
        ELSE IF ~rs.some THEN missing("read_scaling.instance_size")
        ELSE IF ~flock.some THEN missing("read_scaling.flock_size")
        ELSE Ok([rw |-> rw.v, rs |-> rs.v, flock |-> flock.v])

\* merge_overrides with a flock size that defaults to 0 (unwrap_or_default).
merge_overrides_default_flock(rw_size, rs_size, flock_size, cur) ==
    LET rw == IF rw_size.some THEN Some(as_api_str(rw_size.v))
              ELSE extract_str(Index(cur, "read_write"), "instance_size")
        rs == IF rs_size.some THEN Some(as_api_str(rs_size.v))
              ELSE extract_str(Index(cur, "read_scaling"), "instance_size")
        fetched == as_u64(Index(Index(cur, "read_scaling"), "flock_size"))
        flock == IF flock_size.some THEN flock_size
                 ELSE IF fetched.some /\ u32_try_from(fetched.v).some
                      THEN u32_try_from(fetched.v) ELSE Some(Wide(0))
    IN  IF ~rw.some THEN missing("read_write.instance_size")
        ELSE IF ~rs.some THEN missing("read_scaling.instance_size")
        ELSE Ok([rw |-> rw.v, rs |-> rs.v, flock |-> flock.v])

\* The merge with the range of --flock-size applied to the fetched flock
\* size too.
merge_overrides_fetched_in_range(rw_size, rs_size, flock_size, cur) ==
    LET rw == IF rw_size.some THEN Some(as_api_str(rw_size.v))
              ELSE extract_str(Index(cur, "read_write"), "instance_size")
        rs == IF rs_size.some THEN Some(as_api_str(rs_size.v))
              ELSE extract_str(Index(cur, "read_scaling"), "instance_size")
        fetched == as_u64(Index(Index(cur, "read_scaling"), "flock_size"))
        flock == IF flock_size.some THEN flock_size
                 ELSE IF fetched.some /\ fetched.v[1] = 0 /\ fetched.v[2] <= FLOCK_SIZE_MAX
                      THEN u32_try_from(fetched.v) ELSE None
    IN  IF ~rw.some THEN missing("read_write.instance_size")
        ELSE IF ~rs.some THEN missing("read_scaling.instance_size")
        ELSE IF ~flock.some THEN missing("read_scaling.flock_size")
        ELSE Ok([rw |-> rw.v, rs |-> rs.v, flock |-> flock.v])

\* handle_duckling, Set: the three fields to submit, each the override or the
\* fetched field, or the error of the first field that is neither.
merge_overrides(rw_size, rs_size, flock_size, cur) ==
    LET rw == IF rw_size.some THEN Some(as_api_str(rw_size.v))
              ELSE extract_str(Index(cur, "read_write"), "instance_size")
        rs == IF rs_size.some THEN Some(as_api_str(rs_size.v))
              ELSE extract_str(Index(cur, "read_scaling"), "instance_size")
        fetched == as_u64(Index(Index(cur, "read_scaling"), "flock_size"))
        flock == IF flock_size.some THEN flock_size
                 ELSE IF fetched.some THEN u32_try_from(fetched.v) ELSE None
    IN  IF ~rw.some THEN missing("read_write.instance_size")
        ELSE IF ~rs.some THEN missing("read_scaling.instance_size")
        ELSE IF ~flock.some THEN missing("read_scaling.flock_size")
        ELSE Ok([rw |-> rw.v, rs |-> rs.v, flock |-> flock.v])

-----------------------------------------------------------------------------
\* The inputs of a run.

\* std::env::var: Ok(value) or Err(VarError::NotPresent).
NotPresent == Err(<<Frame("NotPresent", <<>>)>>)
EnvValues == {NotPresent, Ok(<<>>), Ok(<<"a">>), Ok(<<" ", "b">>)}
Envs == [{ENV_VARS[i] : i \in DOMAIN ENV_VARS} -> EnvValues]
NoEnv == [n \in {ENV_VARS[i] : i \in DOMAIN ENV_VARS} |-> NotPresent]

\* --token: absent, or a value.
CliTokens == {None} \cup {Some(t) : t \in SeqsUpTo({" ", "t", "-"}, MaxTokenLen)}

\* What read_to_string on stdin gives for `--token -`.
IoError == Err(<<Frame("io error", <<>>)>>)
StdinContents == {IoError} \cup {Ok(c) : c \in SeqsUpTo({" ", "\n", "t"}, MaxStdinLen)}

\* What read_line on stdin gives at the confirmation prompt: a line ends
\* with its terminator, or without one at end of input.
ConfirmLines ==
    {IoError} \cup
    {Ok(body \o term) : body \in SeqsUpTo({" ", "y", "Y", "e", "E", "s"}, MaxAnswerLen),
                        term \in {<<>>, <<"\n">>}}

\* The inputs of the whole-run specification: a few of the above.
RunCliTokens == {None, Some(<<"-">>), Some(<<"t">>), Some(<<" ">>)}
RunEnvs == {NoEnv, [NoEnv EXCEPT !["MOTHERDUCK_TOKEN"] = Ok(<<"e">>)]}
RunStdinContents == {IoError, Ok(<<>>), Ok(<<"t", "\n">>)}

Usernames == {<<"u">>, <<"a", "/", "b">>}
TokenIds == {<<"7">>, <<"?">>}

\* A command line: the global options and one command with its arguments
\* (the arguments a command does not take are None).
Args(command, username) ==
    [command |-> command, token |-> None, yes |-> FALSE, output |-> "Text",
     username |-> username, token_id |-> None, name |-> None, ttl |-> None,
     token_type |-> None, rw_size |-> None, rs_size |-> None, flock_size |-> None]

Commands ==
    {Args(c, Some(u)) : c \in {"sa_create", "sa_delete", "token_list", "duckling_get"},
                        u \in Usernames}
    \cup {[Args("token_create", Some(<<"u">>)) EXCEPT
              !.name = Some("my-tok"), !.ttl = ttl, !.token_type = Some(tt)] :
            ttl \in {None, Some(299), Some(3600)}, tt \in {"ReadWrite", "ReadScaling"}}
    \cup {[Args("token_delete", Some(<<"u">>)) EXCEPT !.token_id = Some(id)] :
            id \in TokenIds}
    \cup {[Args("duckling_set", Some(<<"u">>)) EXCEPT
              !.rw_size = rw, !.rs_size = rs, !.flock_size = fl] :
            rw \in {None, Some("jumbo"), Some("tiny")},
            rs \in {None, Some("giga")},
            fl \in {None, Some(0), Some(64), Some(65)}}
    \cup {Args("account_list_active", None)}

RunArgv ==
    {[c EXCEPT !.token = t, !.yes = y, !.output = o] :
        c \in Commands, t \in RunCliTokens, y \in BOOLEAN, o \in {"Text", "Json"}}

AuthArgv == {[Args("account_list_active", None) EXCEPT !.token = t] : t \in CliTokens}

\* What the network and the server answer to a call.
TransportFailure ==
    [transport |-> FALSE, status |-> 0, readable |-> FALSE, text |-> RawText("")]
Unreadable(status) ==
    [transport |-> TRUE, status |-> status, readable |-> FALSE, text |-> RawText("")]
Answer(status, text) ==
    [transport |-> TRUE, status |-> status, readable |-> TRUE, text |-> text]

Field(key, value) == [k \in {key} |-> value]
EmptyObj == Obj([k \in {} |-> Null])

Failures ==
    {TransportFailure, Unreadable(200),
     Answer(404, JsonText(Obj(Field("message", Str("user not found"))))),
     Answer(400, JsonText(Obj(Field("error", Str("something broke"))))),
     Answer(500, RawText("Internal Server Error"))}

PlainSuccess == Answer(200, RawText("plain text response"))

CreateUserResponses ==
    Failures \cup {PlainSuccess, Answer(200, JsonText(EmptyObj)),
                   Answer(200, JsonText(Obj(Field("username", Str("svc_test")))))}

DeleteResponses ==
    Failures \cup {PlainSuccess, Answer(200, JsonText(EmptyObj))}

TokenJson(expire) ==
    Obj([k \in {"id", "name", "expire_at"} |->
            CASE k = "id" -> Str("t123")
              [] k = "name" -> Str("my-tok")
              [] k = "expire_at" -> expire])

ListTokensResponses ==
    Failures \cup {PlainSuccess,
                   Answer(200, JsonText(Obj(Field("tokens", Arr(<<>>))))),
                   Answer(200, JsonText(Obj(Field("tokens",
                        Arr(<<TokenJson(Str("")), TokenJson(Str("2030-01-01"))>>)))))}

CreateTokenResponses ==
    Failures \cup {PlainSuccess, Answer(200, JsonText(Obj(Field("token", Str("secret")))))}

AccountJson ==
    Obj([k \in {"username", "ducklings"} |->
            IF k = "username" THEN Str("alice")
            ELSE Arr(<<Obj([f \in {"type", "status"} |->
                              IF f = "type" THEN Str("read_write") ELSE Str("active")])>>)])

ListActiveResponses ==
    Failures \cup {PlainSuccess,
                   Answer(200, JsonText(Obj(Field("accounts", Arr(<<>>))))),
                   Answer(200, JsonText(Obj(Field("accounts", Arr(<<AccountJson>>)))))}

\* A duckling configuration as the API returns it; Absent leaves the key out.
Absent == [t |-> "absent"]
Present(fields) == {k \in DOMAIN fields : fields[k] # Absent}

ConfigJson(rw, rs, flock) ==
    LET rwf == [k \in {"instance_size"} |-> rw]
        rsf == [k \in {"instance_size", "flock_size"} |->
                   IF k = "instance_size" THEN rs ELSE flock]
    IN  Obj([k \in {"read_write", "read_scaling"} |->
               IF k = "read_write"
               THEN Obj([f \in Present(rwf) |-> rwf[f]])
               ELSE Obj([f \in Present(rsf) |-> rsf[f]])])

FetchedRw == {Absent, Str("pulse"), Num(Wide(7))}
FetchedRs == {Null, Str("standard")}
FetchedFlock ==
    {Absent, Num(Wide(4)), Num(Wide(65)), Num(WideHL(65535, 65535)),
     Num(WideHL(65536, 0)), Num(Wide(-1)), Float(Wide(4))}

FetchedConfigs ==
    {ConfigJson(rw, rs, fl) : rw \in FetchedRw, rs \in FetchedRs, fl \in FetchedFlock}

GetConfigResponses ==
    Failures \cup {PlainSuccess} \cup {Answer(200, JsonText(c)) : c \in FetchedConfigs}

PutConfigResponses ==
    {TransportFailure,
     Answer(404, JsonText(Obj(Field("message", Str("user not found"))))),
     PlainSuccess,
     Answer(200, JsonText(ConfigJson(Str("jumbo"), Str("standard"), Num(Wide(4)))))}

\* Every kind of answer to one call: statuses on both sides of each end of
\* [200, 300), and bodies that decode as JSON (objects with and without a
\* `message`, of a string or of another type; values that are no objects)
\* or do not decode (plain text, the empty body).
Statuses == {100, 199, 200, 201, 204, 299, 300, 301, 400, 404, 500, 599}

Bodies ==
    {JsonText(EmptyObj),
     JsonText(Obj(Field("message", Str("user not found")))),
     JsonText(Obj(Field("message", Str("")))),
     JsonText(Obj(Field("message", Num(Wide(42))))),
     JsonText(Obj(Field("message", Null))),
     JsonText(Obj(Field("error", Str("something broke")))),
     JsonText(Obj(Field("accounts", Arr(<<AccountJson>>)))),
     JsonText(Str("message")),
     JsonText(Arr(<<Str("message")>>)),
     JsonText(Null),
     RawText("Internal Server Error"),
     RawText("plain text response"),
     RawText("")}

AnyResponses ==
    {TransportFailure} \cup {Unreadable(st) : st \in {200, 404}}
    \cup {Answer(st, text) : st \in Statuses, text \in Bodies}

\* Identifiers: every string up to MaxIdLen over plain characters, the
\* characters of PATH_SEGMENT and a character that is not ASCII, and the two
\* identifiers of the tests of encode_path.
IdChars == {"a", ".", "/", "?", "#", "%", " ", "\n", "é"}

SAFE_ID == <<"s", "v", "c", "_", "t", "e", "s", "t", "-", "u", "s", "e", "r", ".", "1">>
UNSAFE_ID == <<"a", "/", "b", "?", "c", "#", "d", " ", "e">>

Ids == (SeqsUpTo(IdChars, MaxIdLen) \ {<<>>}) \cup {SAFE_ID, UNSAFE_ID}

\* The command lines of the runs over every identifier: each command that
\* puts an identifier in a path, and the two that do not.
PathCommands ==
    {Args(c, Some(u)) : c \in {"sa_delete", "token_list", "duckling_get"}, u \in Ids}
    \cup {[Args("token_create", Some(u)) EXCEPT
              !.name = Some("my-tok"), !.token_type = Some("ReadWrite")] : u \in Ids}
    \cup {[Args("token_delete", Some(u)) EXCEPT !.token_id = Some(id)] :
            u \in {<<"u">>, <<"a", "/", "b">>}, id \in Ids}
    \cup {[Args("duckling_set", Some(u)) EXCEPT !.rw_size = Some("jumbo")] : u \in Ids}
    \cup {Args("sa_create", Some(<<"a", "/", "b">>)), Args("account_list_active", None)}

PathArgv == {[c EXCEPT !.token = Some(<<"t">>), !.yes = TRUE] : c \in PathCommands}

\* The command line of the runs that make one call with any answer.
ResponseArgv ==
    {[Args("account_list_active", None) EXCEPT !.token = Some(<<"t">>), !.output = o] :
        o \in {"Text", "Json"}}

-----------------------------------------------------------------------------
\* main.rs and run(): the state machine of one invocation.

\* ExitCode::SUCCESS, ExitCode::FAILURE and the exit code of clap's usage
\* error. exitCode is None while the process runs.
SUCCESS == 0
FAILURE == 1
USAGE == 2

\* main: eprintln!("Error: {e:#}")
ErrorEntry(chain) == [kind |-> "error", data |-> chain]
PromptEntry(what, id) == [kind |-> "prompt", data |-> <<what, id>>]
UsageEntry == [kind |-> "usage", data |-> <<>>]

Start(argvs, envs, terminals) ==
    /\ pc = "parse"
    /\ argv \in argvs
    /\ cli = None
    /\ env \in envs
    /\ isTerminal \in terminals
    /\ envReads = {}
    /\ stdinReads = <<>>
    /\ token = None
    /\ client = None
    /\ current = None
    /\ merged = None
    /\ calls = <<>>
    /\ replies = <<>>
    /\ results = <<>>
    /\ stdout = <<>>
    /\ stderr = <<>>
    /\ exitCode = None

Init == Start(RunArgv, RunEnvs, BOOLEAN)

InitAuth == Start(AuthArgv, Envs, {FALSE})

\* run: Cli::parse_from(args). A rejected command line ends the process
\* inside clap, with a usage message on stderr.
ParseArgs ==
    /\ pc = "parse"
    /\ IF args_ok(argv)
       THEN /\ cli' = Some(parsed(argv))
            /\ pc' = "resolve"
            /\ UNCHANGED <<stderr, exitCode>>
       ELSE /\ stderr' = Append(stderr, UsageEntry)
            /\ exitCode' = Some(USAGE)
            /\ pc' = "exit"
            /\ UNCHANGED cli
    /\ UNCHANGED <<argv, env, isTerminal, envReads, stdinReads, token, client,
                   current, merged, calls, replies, results, stdout>>

\* run: auth::resolve_token_or(cli.token), stdin giving one of `contents`
\* when it is read (no content is drawn for a stdin that is not read).
ResolveTokenFrom(contents) ==
    /\ pc = "resolve"
    /\ \E reader \in IF resolve_token_or_with(cli.v.token, env, IoError).readStdin
                     THEN contents ELSE {IoError} :
          LET r == resolve_token_or_with(cli.v.token, env, reader)
          IN  /\ envReads' = envReads \cup r.consulted
              /\ stdinReads' = IF r.readStdin
                               THEN Append(stdinReads, [by |-> "token", data |-> reader])
                               ELSE stdinReads
              /\ IF r.result.ok
                 THEN /\ token' = Some(r.result.v)
                      /\ pc' = "client"
                      /\ UNCHANGED <<stderr, exitCode>>
                 ELSE /\ stderr' = Append(stderr, ErrorEntry(r.result.e))
                      /\ exitCode' = Some(FAILURE)
                      /\ pc' = "exit"
                      /\ UNCHANGED token
    /\ UNCHANGED <<argv, cli, env, isTerminal, client, current, merged, calls,
                   replies, results, stdout>>

ResolveToken == ResolveTokenFrom(RunStdinContents)

ResolveTokenAuth == ResolveTokenFrom(StdinContents)

\* run: MotherduckClient::new(&token)
NewClient ==
    /\ pc = "client"
    /\ LET c == new_client(token.v)
       IN  IF c.ok
           THEN /\ client' = Some(c.v)
                /\ pc' = "dispatch"
                /\ UNCHANGED <<stderr, exitCode>>
           ELSE /\ stderr' = Append(stderr, ErrorEntry(c.e))
                /\ exitCode' = Some(FAILURE)
                /\ pc' = "exit"
                /\ UNCHANGED client
    /\ UNCHANGED <<argv, cli, env, isTerminal, envReads, stdinReads, token,
                   current, merged, calls, replies, results, stdout>>

\* The end of a handler in a main that reports the error of the call and
\* still returns ExitCode::SUCCESS.
Complete_always_success(sent, rendered) ==
    /\ calls' = Append(calls, sent.call)
    /\ replies' = Append(replies, sent.reply)
    /\ results' = Append(results, sent.result)
    /\ IF sent.result.ok
       THEN /\ stdout' = stdout \o rendered
            /\ UNCHANGED stderr
       ELSE /\ stderr' = Append(stderr, ErrorEntry(sent.result.e))
            /\ UNCHANGED stdout
    /\ exitCode' = Some(SUCCESS)
    /\ pc' = "exit"
    /\ UNCHANGED <<argv, cli, env, isTerminal, envReads, stdinReads, token, client,
                   current, merged>>

\* The end of a handler that makes a failed call a second time.
Complete_retrying(sent, rendered) ==
    /\ calls' = IF sent.result.ok THEN Append(calls, sent.call)
                ELSE calls \o <<sent.call, sent.call>>
    /\ replies' = IF sent.result.ok THEN Append(replies, sent.reply)
                  ELSE replies \o <<sent.reply, sent.reply>>
    /\ results' = IF sent.result.ok THEN Append(results, sent.result)
                  ELSE results \o <<sent.result, sent.result>>
    /\ IF sent.result.ok
       THEN /\ stdout' = stdout \o rendered
            /\ exitCode' = Some(SUCCESS)
            /\ UNCHANGED stderr
       ELSE /\ stderr' = Append(stderr, ErrorEntry(sent.result.e))
            /\ exitCode' = Some(FAILURE)
            /\ UNCHANGED stdout
    /\ pc' = "exit"
    /\ UNCHANGED <<argv, cli, env, isTerminal, envReads, stdinReads, token, client,
                   current, merged>>

\* The end of a handler whose last step is one call: the call is made, then
\* its result is rendered on stdout, or its error goes to main.
Complete(sent, rendered) ==
    /\ calls' = Append(calls, sent.call)
    /\ replies' = Append(replies, sent.reply)
    /\ results' = Append(results, sent.result)
    /\ IF sent.result.ok
       THEN /\ stdout' = stdout \o rendered
            /\ exitCode' = Some(SUCCESS)
            /\ UNCHANGED stderr
       ELSE /\ stderr' = Append(stderr, ErrorEntry(sent.result.e))
            /\ exitCode' = Some(FAILURE)
            /\ UNCHANGED stdout
    /\ pc' = "exit"
    /\ UNCHANGED <<argv, cli, env, isTerminal, envReads, stdinReads, token, client,
                   current, merged>>

\* handle_service_account, Create
ServiceAccountCreate ==
    /\ pc = "dispatch"
    /\ cli.v.command = "sa_create"
    /\ \E resp \in CreateUserResponses :
          LET sent == create_user(cli.v.username.v, resp)
          IN  Complete(sent, render_create_user(cli.v.output, sent.result.v))

\* handle_service_account / handle_token, Delete: the confirmation gate.
\* The outcome of the flush and the line are drawn only when confirm gets
\* to flush and to read.
Confirm ==
    /\ pc = "dispatch"
    /\ cli.v.command \in {"sa_delete", "token_delete"}
    /\ \E flushed \in IF confirm(cli.v.yes, isTerminal, TRUE, IoError).prompted
                      THEN BOOLEAN ELSE {TRUE} :
       \E line \in IF confirm(cli.v.yes, isTerminal, flushed, IoError).read
                   THEN ConfirmLines ELSE {IoError} :
          LET c == confirm(cli.v.yes, isTerminal, flushed, line)
              prompt == IF cli.v.command = "sa_delete"
                        THEN PromptEntry("Delete service account", cli.v.username.v)
                        ELSE PromptEntry("Delete token", cli.v.token_id.v)
              shown == IF c.prompted THEN Append(stderr, prompt) ELSE stderr
          IN  /\ stdinReads' = IF c.read
                               THEN Append(stdinReads, [by |-> "confirm", data |-> line])
                               ELSE stdinReads
              /\ IF c.result.ok
                 THEN /\ stderr' = shown
                      /\ pc' = "delete"
                      /\ UNCHANGED exitCode
                 ELSE /\ stderr' = Append(shown, ErrorEntry(c.result.e))
                      /\ exitCode' = Some(FAILURE)
                      /\ pc' = "exit"
    /\ UNCHANGED <<argv, cli, env, isTerminal, envReads, token, client,
                   current, merged, calls, replies, results, stdout>>

\* handle_service_account, Delete, after the gate
ServiceAccountDelete ==
    /\ pc = "delete"
    /\ cli.v.command = "sa_delete"
    /\ \E resp \in DeleteResponses :
          LET sent == delete_user(cli.v.username.v, resp)
          IN  Complete(sent, render_delete(cli.v.output, sent.result.v))

\* handle_token, Delete, after the gate
TokenDelete ==
    /\ pc = "delete"
    /\ cli.v.command = "token_delete"
    /\ \E resp \in DeleteResponses :
          LET sent == delete_token(cli.v.username.v, cli.v.token_id.v, resp)
          IN  Complete(sent, render_delete(cli.v.output, sent.result.v))

\* handle_token, List
TokenList ==
    /\ pc = "dispatch"
    /\ cli.v.command = "token_list"
    /\ \E resp \in ListTokensResponses :
          LET sent == list_tokens(cli.v.username.v, resp)
          IN  Complete(sent, render_list_tokens(cli.v.output, sent.result.v))

\* handle_token, Create
TokenCreate ==
    /\ pc = "dispatch"
    /\ cli.v.command = "token_create"
    /\ \E resp \in CreateTokenResponses :
          LET sent == create_token(cli.v.username.v, cli.v.name.v, cli.v.ttl,
                                   Some(token_type_as_api_str(cli.v.token_type.v)), resp)
          IN  Complete(sent, render_create_token(cli.v.output, sent.result.v))

\* handle_duckling, Get
DucklingGet ==
    /\ pc = "dispatch"
    /\ cli.v.command = "duckling_get"
    /\ \E resp \in GetConfigResponses :
          LET sent == get_duckling_config(cli.v.username.v, resp)
          IN  Complete(sent, render_duckling(cli.v.output, sent.result.v))

\* handle_duckling, Set: client.get_duckling_config(&username)?
DucklingSetFetch ==
    /\ pc = "dispatch"
    /\ cli.v.command = "duckling_set"
    /\ \E resp \in GetConfigResponses :
          LET sent == get_duckling_config(cli.v.username.v, resp)
          IN  /\ calls' = Append(calls, sent.call)
              /\ replies' = Append(replies, sent.reply)
              /\ results' = Append(results, sent.result)
              /\ IF sent.result.ok
                 THEN /\ current' = Some(sent.result.v)
                      /\ pc' = "merge"
                      /\ UNCHANGED <<stderr, exitCode>>
                 ELSE /\ stderr' = Append(stderr, ErrorEntry(sent.result.e))
                      /\ exitCode' = Some(FAILURE)
                      /\ pc' = "exit"
                      /\ UNCHANGED current
    /\ UNCHANGED <<argv, cli, env, isTerminal, envReads, stdinReads, token, client,
                   merged, stdout>>

\* handle_duckling, Set: the choice of rw, rs and flock
DucklingSetMerge ==
    /\ pc = "merge"
    /\ LET m == merge_overrides(cli.v.rw_size, cli.v.rs_size, cli.v.flock_size, current.v)
       IN  IF m.ok
           THEN /\ merged' = Some(m.v)
                /\ pc' = "put"
                /\ UNCHANGED <<stderr, exitCode>>
           ELSE /\ stderr' = Append(stderr, ErrorEntry(m.e))
                /\ exitCode' = Some(FAILURE)
                /\ pc' = "exit"
                /\ UNCHANGED merged
    /\ UNCHANGED <<argv, cli, env, isTerminal, envReads, stdinReads, token, client,
                   current, calls, replies, results, stdout>>

\* handle_duckling, Set: client.set_duckling_config(&username, rw, rs, flock)?
DucklingSetPut ==
    /\ pc = "put"
    /\ \E resp \in PutConfigResponses :
          LET sent == set_duckling_config(cli.v.username.v, merged.v.rw, merged.v.rs,
                                          merged.v.flock, resp)
          IN  Complete(sent, render_duckling(cli.v.output, sent.result.v))

\* handle_account, ListActive
AccountListActiveFrom(responses) ==
    /\ pc = "dispatch"
    /\ cli.v.command = "account_list_active"
    /\ \E resp \in responses :
          LET sent == list_active_accounts(resp)
          IN  Complete(sent, render_list_active(cli.v.output, sent.result.v))

AccountListActive == AccountListActiveFrom(ListActiveResponses)

AccountListActiveAny == AccountListActiveFrom(AnyResponses)

Next ==
    \/ ParseArgs
    \/ ResolveToken
    \/ NewClient
    \/ ServiceAccountCreate
    \/ Confirm
    \/ ServiceAccountDelete
    \/ TokenDelete
    \/ TokenList
    \/ TokenCreate
    \/ DucklingGet
    \/ DucklingSetFetch
    \/ DucklingSetMerge
    \/ DucklingSetPut
    \/ AccountListActive

Spec == Init /\ [][Next]_vars

\* Credential resolution and client construction alone (run, up to the
\* dispatch), over every --token value, environment and stdin content of
\* the bounds.
NextAuth ==
    \/ ParseArgs
    \/ ResolveTokenAuth
    \/ NewClient

SpecAuth == InitAuth /\ [][NextAuth]_vars

\* One call and the normalization of its answer (handle_response and
\* parse_response), over every status and body of AnyResponses.
InitResponse == Start(ResponseArgv, {NoEnv}, {FALSE})

NextResponse ==
    \/ ParseArgs
    \/ ResolveToken
    \/ NewClient
    \/ AccountListActiveAny

SpecResponse == InitResponse /\ [][NextResponse]_vars

\* Every command over every identifier of Ids.
InitPath == Start(PathArgv, {NoEnv}, {FALSE})

SpecPath == InitPath /\ [][Next]_vars

-----------------------------------------------------------------------------
\* Vocabulary of the properties.

\* r is v without its leading and trailing whitespace, said without Trim:
\* v is whitespace, then r, then whitespace, and r neither starts nor ends
\* with whitespace.
IsTrimOf(r, v) ==
    \E i \in 0..Len(v) :
       /\ i + Len(r) <= Len(v)
       /\ r = SubSeq(v, i + 1, i + Len(r))
       /\ \A k \in 1..i : IsWhitespace(v[k])
       /\ \A k \in (i + Len(r) + 1)..Len(v) : IsWhitespace(v[k])
       /\ r # <<>> => (~IsWhitespace(r[1]) /\ ~IsWhitespace(r[Len(r)]))

\* "y" and "yes" in every casing.
YesAnswers ==
    {<<y>> : y \in {"y", "Y"}}
    \cup {<<y, e, s>> : y \in {"y", "Y"}, e \in {"e", "E"}, s \in {"s", "S"}}

IsYes(line) == \E r \in YesAnswers : IsTrimOf(r, line)

DeleteCommands == {"sa_delete", "token_delete"}

\* The run is past the confirmation gate of a destructive command.
GatePassed ==
    /\ cli.some
    /\ cli.v.command \in DeleteCommands
    /\ client.some
    /\ pc \in {"delete", "exit"}

ConfirmReads == {i \in DOMAIN stdinReads : stdinReads[i].by = "confirm"}
TokenReads == {i \in DOMAIN stdinReads : stdinReads[i].by = "token"}
CallsOf(method) == {i \in DOMAIN calls : calls[i].method = method}
Prompts == {i \in DOMAIN stderr : stderr[i].kind = "prompt"}
Errors == {i \in DOMAIN stderr : stderr[i].kind = "error"}
\* The messages of the errors main printed.
ErrorMessages == UNION {Msgs(stderr[i].data) : i \in Errors}

-----------------------------------------------------------------------------
\* C1: at the gate of a destructive command that is not bypassed (no --yes,
\* stdin a terminal), a DELETE call is made only if the line read, trimmed and
\* lower-cased, is "y" or "yes"; every other answer, the empty line included,
\* ends the run with the "aborted" error and without any API call.
C1_ConfirmGate ==
    (GatePassed /\ ~cli.v.yes /\ isTerminal) =>
        /\ CallsOf("DELETE") # {} =>
              \E i \in ConfirmReads :
                 stdinReads[i].data.ok /\ IsYes(stdinReads[i].data.v)
        /\ \A i \in ConfirmReads :
              (stdinReads[i].data.ok /\ ~IsYes(stdinReads[i].data.v)) =>
                  /\ pc = "exit"
                  /\ calls = <<>>
                  /\ exitCode = Some(FAILURE)
                  /\ "aborted" \in ErrorMessages

\* The prompt was answered " Y" and the DELETE call was made.
C1_Witness ==
    /\ GatePassed /\ ~cli.v.yes /\ isTerminal
    /\ pc = "exit"
    /\ CallsOf("DELETE") # {}
    /\ \E i \in ConfirmReads : stdinReads[i].data = Ok(<<" ", "Y", "\n">>)

\* C2: with --yes, or with a stdin that is no terminal, a destructive command
\* is auto-confirmed: no prompt is written, no line is read for a
\* confirmation, and the command goes on to its DELETE call.
C2_AutoConfirm ==
    (GatePassed /\ (cli.v.yes \/ ~isTerminal)) =>
        /\ Prompts = {}
        /\ ConfirmReads = {}
        /\ "aborted" \notin ErrorMessages
        /\ IF pc = "delete"
           THEN calls = <<>> /\ ENABLED (ServiceAccountDelete \/ TokenDelete)
           ELSE Len(calls) = 1 /\ calls[1].method = "DELETE"

\* No --yes, stdin not a terminal: the DELETE call was made.
C2_Witness ==
    /\ GatePassed /\ ~cli.v.yes /\ ~isTerminal
    /\ pc = "exit"
    /\ CallsOf("DELETE") # {}

-----------------------------------------------------------------------------
\* Vocabulary of the duckling set properties.

\* A field of the configuration a PUT call submits.
Submitted(i, section, field) ==
    Index(Index(Index(calls[i].body.v, "config"), section), field)

\* A field of the configuration the GET fetched.
Fetched(section, field) == Index(Index(current.v, section), field)

FIELDS ==
    <<"read_write.instance_size", "read_scaling.instance_size",
      "read_scaling.flock_size">>

Overridden(f) ==
    CASE f = "read_write.instance_size" -> argv.rw_size.some
      [] f = "read_scaling.instance_size" -> argv.rs_size.some
      [] f = "read_scaling.flock_size" -> argv.flock_size.some

\* The fetched configuration has field f: a string for a size, a non-negative
\* integer of 32 bits for the flock size.
InFetched(f) ==
    CASE f = "read_write.instance_size" ->
            Fetched("read_write", "instance_size").t = "str"
      [] f = "read_scaling.instance_size" ->
            Fetched("read_scaling", "instance_size").t = "str"
      [] f = "read_scaling.flock_size" ->
            LET v == Fetched("read_scaling", "flock_size")
            IN  v.t = "num" /\ v.n[1] >= 0 /\ v.n[1] <= U32_MAX_HI

MissingFields ==
    {i \in DOMAIN FIELDS : ~Overridden(FIELDS[i]) /\ ~InFetched(FIELDS[i])}

\* The run is a duckling set that has fetched the current configuration.
FetchedCurrent ==
    /\ cli.some
    /\ cli.v.command = "duckling_set"
    /\ current.some

\* The answer to a call is a failure: no answer, an unreadable one, or a
\* status outside 200..299.
FailedReply(r) == ~r.transport \/ ~r.readable \/ r.status < 200 \/ r.status > 299

-----------------------------------------------------------------------------
\* C3: every PUT of duckling set follows the GET of the same path, and each
\* field of the configuration it submits is the caller's override when one is
\* given, and the fetched configuration's field otherwise.
C3_MergedWrite ==
    \A i \in CallsOf("PUT") :
       /\ i = 2
       /\ calls[1].method = "GET"
       /\ calls[1].path = calls[i].path
       /\ FetchedCurrent
       /\ Submitted(i, "read_write", "instance_size") =
             IF argv.rw_size.some THEN Str(argv.rw_size.v)
             ELSE Fetched("read_write", "instance_size")
       /\ Submitted(i, "read_scaling", "instance_size") =
             IF argv.rs_size.some THEN Str(argv.rs_size.v)
             ELSE Fetched("read_scaling", "instance_size")
       /\ Submitted(i, "read_scaling", "flock_size") =
             IF argv.flock_size.some THEN Num(Wide(argv.flock_size.v))
             ELSE Fetched("read_scaling", "flock_size")

\* Current {pulse, standard, 4} with --rw-size jumbo alone: {jumbo, standard, 4}
\* was submitted.
C3_Witness ==
    /\ FetchedCurrent
    /\ argv.rw_size = Some("jumbo") /\ ~argv.rs_size.some /\ ~argv.flock_size.some
    /\ current.v = ConfigJson(Str("pulse"), Str("standard"), Num(Wide(4)))
    /\ CallsOf("PUT") = {2}
    /\ calls[2].body.v = config_body("jumbo", "standard", Wide(4))

\* C4: when a field is neither overridden nor in the fetched configuration,
\* duckling set fails with the "current config missing" error naming such a
\* field (the first of them in the order rw size, rs size, flock size), and
\* no PUT is sent.
C4_MissingField ==
    (FetchedCurrent /\ pc \in {"put", "exit"} /\ MissingFields # {}) =>
        /\ pc = "exit"
        /\ exitCode = Some(FAILURE)
        /\ CallsOf("PUT") = {}
        /\ stdout = <<>>
        /\ \E i \in Errors :
              /\ stderr[i].data[1].msg = "current config missing"
              /\ \E f \in MissingFields :
                    /\ stderr[i].data[1].arg = <<FIELDS[f]>>
                    /\ \A g \in MissingFields : f <= g

\* Only --rw-size given and a fetched configuration without flock_size: the
\* run failed naming read_scaling.flock_size.
C4_Witness ==
    /\ FetchedCurrent /\ pc = "exit"
    /\ argv.rw_size.some /\ ~argv.rs_size.some /\ ~argv.flock_size.some
    /\ MissingFields = {3}
    /\ CallsOf("PUT") = {}
    /\ \E i \in Errors : stderr[i].data[1].arg = <<"read_scaling.flock_size">>

\* C5: when the GET of duckling set fails, no PUT is sent (the GET stays the
\* only call) and nothing is written to standard output.
C5_FailedFetch ==
    (/\ cli.some
     /\ cli.v.command = "duckling_set"
     /\ replies # <<>>
     /\ FailedReply(replies[1])) =>
        /\ pc = "exit"
        /\ exitCode = Some(FAILURE)
        /\ Len(calls) = 1
        /\ calls[1].method = "GET"
        /\ stdout = <<>>

\* The GET of a duckling set was answered 404.
C5_Witness ==
    /\ cli.some
    /\ cli.v.command = "duckling_set"
    /\ replies # <<>>
    /\ replies[1].transport /\ replies[1].status = 404
    /\ pc = "exit"

\* C6: a duckling set without --rw-size, --rs-size and --flock-size ends at
\* argument parsing: no credential is resolved (no environment lookup, no
\* read of stdin), no client is built and no call is made.
C6_NoOverrides ==
    (/\ argv.command = "duckling_set"
     /\ ~argv.rw_size.some /\ ~argv.rs_size.some /\ ~argv.flock_size.some
     /\ pc # "parse") =>
        /\ pc = "exit"
        /\ exitCode = Some(USAGE)
        /\ cli = None
        /\ token = None
        /\ envReads = {}
        /\ stdinReads = <<>>
        /\ client = None
        /\ calls = <<>>

\* `--token - duckling set u` with a token in the environment was rejected.
C6_Witness ==
    /\ argv.command = "duckling_set"
    /\ ~argv.rw_size.some /\ ~argv.rs_size.some /\ ~argv.flock_size.some
    /\ argv.token = Some(<<"-">>)
    /\ env # NoEnv
    /\ pc = "exit"

-----------------------------------------------------------------------------
\* Vocabulary of the credential properties.

\* The run is past credential resolution.
Resolved == pc \notin {"parse", "resolve"}

\* The environment names, highest priority first.
PRIORITY ==
    <<"motherduck_token", "MOTHERDUCK_TOKEN", "motherduck_api_key", "MOTHERDUCK_API_KEY">>

\* The positions in PRIORITY of the names with a non-empty value.
NonEmptyNames == {i \in DOMAIN PRIORITY : env[PRIORITY[i]].ok /\ env[PRIORITY[i]].v # <<>>}

\* The process failed without a credential, with an error of message msg.
FailedWith(msg) ==
    /\ pc = "exit"
    /\ exitCode = Some(FAILURE)
    /\ token = None
    /\ client = None
    /\ \E i \in Errors : stderr[i].data[Len(stderr[i].data)].msg = msg

-----------------------------------------------------------------------------
\* C7: with a --token value no environment name is ever looked up, whatever
\* the environment holds; a value other than "-" resolves to its trimmed
\* form, and one that is empty after trimming is the "must not be empty"
\* error, not a fall through to the environment.
C7_CliTokenWins ==
    argv.token.some =>
        /\ envReads = {}
        /\ (Resolved /\ argv.token.v # <<"-">>) =>
              IF IsTrimOf(<<>>, argv.token.v)
              THEN FailedWith("--token value must not be empty")
              ELSE /\ token.some
                   /\ token.v # <<>>
                   /\ IsTrimOf(token.v, argv.token.v)

\* `--token " "` with motherduck_token set: the run failed.
C7_Witness ==
    /\ argv.token = Some(<<" ">>)
    /\ env["motherduck_token"] = Ok(<<"a">>)
    /\ pc = "exit"

\* C8: without a --token value the credential is the value of the first
\* name, in priority order, whose value is set and non-empty (an empty
\* value counts as unset), and resolution fails with the "No MotherDuck
\* token found" error naming the four names exactly when there is none.
C8_EnvOrder ==
    (~argv.token.some /\ Resolved) =>
        IF NonEmptyNames # {}
        THEN \E i \in NonEmptyNames :
                /\ \A j \in NonEmptyNames : i <= j
                /\ token = Some(env[PRIORITY[i]].v)
        ELSE /\ FailedWith("No MotherDuck token found. Set one of")
             /\ \E i \in Errors : stderr[i].data[1].arg = PRIORITY

\* motherduck_token empty, MOTHERDUCK_TOKEN unset, the two api keys set: the
\* value of motherduck_api_key was taken.
C8_Witness ==
    /\ ~argv.token.some
    /\ env["motherduck_token"] = Ok(<<>>)
    /\ env["MOTHERDUCK_TOKEN"] = NotPresent
    /\ env["motherduck_api_key"] = Ok(<<"a">>)
    /\ env["MOTHERDUCK_API_KEY"] = Ok(<<" ", "b">>)
    /\ token = Some(<<"a">>)

\* C9: the credential a client is built with is non-empty and has no leading
\* or trailing whitespace, whichever source it came from.
C9_TrimmedCredential ==
    client.some =>
        /\ token.some
        /\ token.v # <<>>
        /\ ~IsWhitespace(token.v[1])
        /\ ~IsWhitespace(token.v[Len(token.v)])

\* C10: with `--token -` the credential is the whole content of stdin without
\* its leading and trailing whitespace, whatever the environment holds, and
\* a content that is empty after trimming is the "stdin was empty" error, not
\* a fall through to the environment.
C10_StdinToken ==
    (argv.token = Some(<<"-">>) /\ Resolved) =>
        /\ envReads = {}
        /\ Len(stdinReads) = 1
        /\ stdinReads[1].by = "token"
        /\ stdinReads[1].data.ok =>
              IF IsTrimOf(<<>>, stdinReads[1].data.v)
              THEN FailedWith("stdin was empty; expected a token")
              ELSE /\ token.some
                   /\ token.v # <<>>
                   /\ IsTrimOf(token.v, stdinReads[1].data.v)

\* stdin held " t\n" and every environment name a value: the credential is "t".
C10_Witness ==
    /\ argv.token = Some(<<"-">>)
    /\ \A i \in DOMAIN PRIORITY : env[PRIORITY[i]] = Ok(<<"a">>)
    /\ stdinReads = <<[by |-> "token", data |-> Ok(<<" ", "t", "\n">>)]>>
    /\ token = Some(<<"t">>)
    /\ client.some

-----------------------------------------------------------------------------
\* Response normalization.

Is2xx(status) == status \in 200..299
Decodes(text) == text[1] = "json"
Decoded(text) == text[2]

\* The calls whose answer came with a body that could be read.
Normalized == {i \in DOMAIN results : replies[i].transport /\ replies[i].readable}

\* The result is an error of the API with this status and this message.
IsApiError(res, status, message) ==
    /\ ~res.ok
    /\ \E k \in DOMAIN res.e :
          /\ res.e[k].msg = "API error"
          /\ res.e[k].arg[1] = status
          /\ res.e[k].arg[2] = message

\* C11: every status and body has a result: a success exactly for a status
\* in [200, 300), the decoded value for a 2xx body that decodes, the raw
\* text as a JSON string for a 2xx body that does not, and for every other
\* status an error holding the status, whether or not the body decodes.
C11_ResponseTotal ==
    \A i \in Normalized :
       LET r == replies[i]
           res == results[i]
       IN  /\ res.ok <=> Is2xx(r.status)
           /\ (Is2xx(r.status) /\ Decodes(r.text)) =>
                 (res.ok /\ res.v = Decoded(r.text))
           /\ (Is2xx(r.status) /\ ~Decodes(r.text)) =>
                 (res.ok /\ res.v.t = "str" /\ res.v.s = r.text)
           /\ ~Is2xx(r.status) =>
                 /\ ~res.ok
                 /\ \E k \in DOMAIN res.e :
                       res.e[k].msg = "API error" /\ res.e[k].arg[1] = r.status

\* All four cases at the two ends of [200, 300) have happened in some run;
\* this one is status 299 with a body that does not decode.
C11_Witness ==
    /\ pc = "exit"
    /\ Normalized = {1}
    /\ replies[1].status = 299 /\ ~Decodes(replies[1].text)
    /\ results[1] = Ok(Str(replies[1].text))
    /\ exitCode = Some(SUCCESS)

\* The `message` of a body: Some for a JSON object with that key.
MessageField(text) ==
    IF Decodes(text) /\ Decoded(text).t = "obj" /\ "message" \in DOMAIN Decoded(text).o
    THEN Some(Decoded(text).o["message"])
    ELSE None

\* A JSON value as the text of a message: the characters of a string, the
\* JSON text of any other value.
AsMessage(value) == IF value.t = "str" THEN RawText(value.s) ELSE JsonText(value)

\* C12 as stated: the message of the error for a non-2xx answer is the
\* body's `message` field whenever the body is a JSON object that has one,
\* and the raw text of the body otherwise.
C12_MessageIfPresent ==
    \A i \in Normalized :
       ~Is2xx(replies[i].status) =>
          LET m == MessageField(replies[i].text)
          IN  IsApiError(results[i], replies[i].status,
                         IF m.some THEN AsMessage(m.v) ELSE replies[i].text)

\* C12, amended: the message of the error for a non-2xx answer is the
\* body's `message` field when the body is a JSON object that has one and
\* it is a JSON string, and the raw text of the body in every other case
\* (no `message`, a `message` that is no string, a body that is no object,
\* a body that does not decode).
C12_ErrorMessage ==
    \A i \in Normalized :
       ~Is2xx(replies[i].status) =>
          LET m == MessageField(replies[i].text)
          IN  IsApiError(results[i], replies[i].status,
                         IF m.some /\ m.v.t = "str" THEN AsMessage(m.v)
                         ELSE replies[i].text)

\* A 404 with {"message": "user not found"}: the error says "user not found".
C12_Witness ==
    /\ pc = "exit"
    /\ Normalized = {1}
    /\ replies[1].status = 404
    /\ MessageField(replies[1].text) = Some(Str("user not found"))
    /\ IsApiError(results[1], 404, RawText("user not found"))
    /\ exitCode = Some(FAILURE)

-----------------------------------------------------------------------------
\* Reads of standard input.

\* C13: a run reads standard input at most once: the read of the credential
\* (`--token -`) and the read of the confirmation answer never both happen,
\* whatever the command, the flags and the kind of stdin.
C13_OneStdinRead ==
    /\ Len(stdinReads) <= 1
    /\ ~(TokenReads # {} /\ ConfirmReads # {})

-----------------------------------------------------------------------------
\* The context of errors.

\* The calls that returned an error to their handler.
FailedCalls == {i \in DOMAIN results : ~results[i].ok}

\* The error chain names the method and the path of the call.
NamesCall(chain, call) ==
    \E k \in DOMAIN chain : chain[k].msg = call.method /\ chain[k].arg = call.path

\* C14: the error of every failed call is printed with the HTTP method and
\* the path of that call, whether the call failed by a non-2xx answer, by a
\* body that could not be read or in the transport.
C14_ErrorContext ==
    \A i \in FailedCalls :
       \E j \in Errors :
          /\ stderr[j].data = results[i].e
          /\ NamesCall(stderr[j].data, calls[i])

-----------------------------------------------------------------------------
\* The number of network calls.

\* The path of the duckling configuration of user "u", written out.
INSTANCES_OF_U ==
    <<"/", "v", "1", "/", "u", "s", "e", "r", "s", "/", "u",
      "/", "i", "n", "s", "t", "a", "n", "c", "e", "s">>

\* The run ended before the dispatch, or at the confirmation gate.
EndedBeforeCalling ==
    /\ pc = "exit"
    /\ \/ cli = None
       \/ token = None
       \/ client = None
       \/ {"aborted", "failed to read confirmation", "failed to flush stderr"}
             \cap ErrorMessages # {}

\* C15: a run makes at most two calls, one after the other and none of them
\* a second try of a failed one: a duckling set that succeeds makes exactly
\* a GET and then a PUT on the same instances path, every other command
\* makes at most one call, and a run that fails in argument validation, in
\* credential resolution or at the confirmation gate makes none.
C15_CallCount ==
    /\ Len(calls) <= 2
    /\ Len(results) = Len(calls)
    /\ \A i \in DOMAIN calls : i < Len(calls) => results[i].ok
    /\ argv.command # "duckling_set" => Len(calls) <= 1
    /\ Len(calls) = 2 =>
          /\ calls[1].method = "GET" /\ calls[2].method = "PUT"
          /\ calls[1].path = calls[2].path
    /\ (argv.command = "duckling_set" /\ exitCode = Some(SUCCESS)) =>
          /\ Len(calls) = 2
          /\ calls[1].method = "GET" /\ calls[1].path = INSTANCES_OF_U
          /\ calls[2].method = "PUT" /\ calls[2].path = INSTANCES_OF_U
    /\ EndedBeforeCalling => calls = <<>>

\* A duckling set that succeeded, with its two calls.
C15_Witness ==
    /\ argv.command = "duckling_set"
    /\ exitCode = Some(SUCCESS)
    /\ Len(calls) = 2
    /\ calls[1].method = "GET" /\ calls[2].method = "PUT"
    /\ results[1].ok /\ results[2].ok

-----------------------------------------------------------------------------
\* Exit code and streams.

\* The command succeeded: the run got to its calls, made all of them (two
\* for duckling set, one otherwise) and each returned Ok.
Succeeded ==
    /\ client.some
    /\ Len(results) = (IF argv.command = "duckling_set" THEN 2 ELSE 1)
    /\ \A i \in DOMAIN results : results[i].ok

\* What main and clap report: the errors and the usage message.
Failures_reported == {i \in DOMAIN stderr : stderr[i].kind \in {"error", "usage"}}

\* C16: the process exits with 0 exactly when the command succeeded and
\* with a nonzero code on every failure, a declined confirmation included;
\* errors and the confirmation prompt are on standard error only, standard
\* output holds only the rendered result, and a failed run has written
\* nothing to standard output.
C16_ExitAndStreams ==
    /\ pc = "exit" <=> exitCode.some
    /\ pc = "exit" =>
          /\ exitCode = Some(SUCCESS) <=> Succeeded
          /\ ~Succeeded => (exitCode.v # 0 /\ stdout = <<>>
                            /\ Cardinality(Failures_reported) = 1)
          /\ Succeeded => Failures_reported = {}
          /\ "aborted" \in ErrorMessages => exitCode.v # 0
    /\ pc # "exit" => (stdout = <<>> /\ Failures_reported = {})
    /\ \A i \in DOMAIN stdout : stdout[i].fmt \in {"line", "json"}
    /\ \A i \in DOMAIN stderr : stderr[i].kind \in {"error", "usage", "prompt"}
    /\ (stdout # <<>> /\ argv.output = "Json") =>
          /\ Len(stdout) = 1
          /\ stdout[1].fmt = "json"
          /\ stdout[1].data = results[Len(results)].v

\* The confirmation was declined: exit code 1, the prompt and "aborted" on
\* standard error, nothing on standard output.
C16_Witness ==
    /\ pc = "exit"
    /\ "aborted" \in ErrorMessages
    /\ Prompts # {}
    /\ exitCode = Some(FAILURE)
    /\ stdout = <<>>
    /\ calls = <<>>

-----------------------------------------------------------------------------
\* Path-segment encoding.

\* The ASCII characters of the identifiers, with their codes, and the
\* characters that are not ASCII, with the bytes of their UTF-8 encoding.
ASCII ==
    [c \in {"\n", " ", "#", "%", "-", ".", "/", "1", "?", "_", "a", "b", "c", "d",
            "e", "r", "s", "t", "u", "v"} |->
        CASE c = "\n" -> 10 [] c = " " -> 32 [] c = "#" -> 35 [] c = "%" -> 37
          [] c = "-" -> 45 [] c = "." -> 46 [] c = "/" -> 47 [] c = "1" -> 49
          [] c = "?" -> 63 [] c = "_" -> 95 [] c = "a" -> 97 [] c = "b" -> 98
          [] c = "c" -> 99 [] c = "d" -> 100 [] c = "e" -> 101 [] c = "r" -> 114
          [] c = "s" -> 115 [] c = "t" -> 116 [] c = "u" -> 117 [] c = "v" -> 118]

UTF8 == [c \in {"é"} |-> <<195, 169>>]

HEX == <<"0", "1", "2", "3", "4", "5", "6", "7", "8", "9", "A", "B", "C", "D", "E", "F">>

\* %XX for one byte.
Escape(byte) == <<"%", HEX[(byte \div 16) + 1], HEX[(byte % 16) + 1]>>

\* A control character, space, '#', '%', '/' or '?'.
IsReserved(c) ==
    /\ c \in DOMAIN ASCII
    /\ \/ ASCII[c] < 32
       \/ ASCII[c] = 127
       \/ c \in {" ", "#", "%", "/", "?"}

\* The encoding as C17 states it: the escape for a reserved character,
\* every other character unchanged.
RECURSIVE ReservedEscaped(_)
ReservedEscaped(s) ==
    IF s = <<>> THEN <<>>
    ELSE (IF IsReserved(Head(s)) THEN Escape(ASCII[Head(s)]) ELSE <<Head(s)>>)
         \o ReservedEscaped(Tail(s))

\* The same, with the escapes of the UTF-8 bytes for a character that is
\* not ASCII.
RECURSIVE ReservedAndNonAsciiEscaped(_)
ReservedAndNonAsciiEscaped(s) ==
    IF s = <<>> THEN <<>>
    ELSE (IF IsReserved(Head(s)) THEN Escape(ASCII[Head(s)])
          ELSE IF Head(s) \in DOMAIN UTF8
          THEN Escape(UTF8[Head(s)][1]) \o Escape(UTF8[Head(s)][2])
          ELSE <<Head(s)>>)
         \o ReservedAndNonAsciiEscaped(Tail(s))

\* The path of the calls of the command, its identifiers encoded by Enc.
PathWith(Enc(_)) ==
    LET c == argv.command
        users == V1_USERS \o <<"/">>
    IN  CASE c = "sa_create" -> V1_USERS
          [] c = "account_list_active" -> V1_ACTIVE_ACCOUNTS
          [] c = "sa_delete" -> users \o Enc(argv.username.v)
          [] c \in {"token_list", "token_create"} ->
                users \o Enc(argv.username.v) \o TOKENS
          [] c = "token_delete" ->
                users \o Enc(argv.username.v) \o TOKENS \o <<"/">> \o Enc(argv.token_id.v)
          [] c \in {"duckling_get", "duckling_set"} ->
                users \o Enc(argv.username.v) \o INSTANCES

Count(path, ch) == Cardinality({k \in DOMAIN path : path[k] = ch})

\* The path has the separators of the fixed literals and no others, and
\* neither a query nor a fragment.
NothingAdded(path) ==
    /\ Count(path, "/") = Count(PathWith(LAMBDA id : <<>>), "/")
    /\ Count(path, "?") = 0
    /\ Count(path, "#") = 0

\* C17 as stated: in the path of every call each identifier has its reserved
\* characters replaced by their %XX escapes and every other character
\* unchanged, and the identifiers add no separator, query or fragment.
C17_OthersUnchanged ==
    \A i \in DOMAIN calls :
       /\ calls[i].path = PathWith(ReservedEscaped)
       /\ NothingAdded(calls[i].path)

\* C17, amended: in the path of every call each identifier has its reserved
\* characters replaced by their %XX escapes, its characters that are not
\* ASCII replaced by the %XX escapes of the bytes of their UTF-8 encoding
\* and every other character unchanged, and the identifiers add no
\* separator, query or fragment.
C17_PathEncoding ==
    \A i \in DOMAIN calls :
       /\ calls[i].path = PathWith(ReservedAndNonAsciiEscaped)
       /\ NothingAdded(calls[i].path)

\* The token "a/b?c#d e" of user "a/b" was deleted: the identifiers are in
\* the path as "a%2Fb%3Fc%23d%20e" and "a%2Fb".
C17_Witness ==
    /\ argv.command = "token_delete"
    /\ argv.username = Some(<<"a", "/", "b">>)
    /\ argv.token_id = Some(UNSAFE_ID)
    /\ Len(calls) = 1
    /\ calls[1].path =
          <<"/", "v", "1", "/", "u", "s", "e", "r", "s", "/", "a", "%", "2", "F", "b",
            "/", "t", "o", "k", "e", "n", "s", "/",
            "a", "%", "2", "F", "b", "%", "3", "F", "c", "%", "2", "3", "d", "%", "2", "0", "e">>

-----------------------------------------------------------------------------
\* The range of the flock size.

\* The fetched flock size is a non-negative integer that fits in 32 bits
\* (at most 2^32 - 1 = 65535 * 2^16 + 65535).
FetchedFlockIsU32 ==
    LET v == Fetched("read_scaling", "flock_size")
    IN  v.t = "num" /\ v.n[1] \in 0..65535 /\ v.n[2] \in 0..65535

\* C18: the range 0..=64 is checked on the --flock-size override only (a
\* value outside it is rejected at parsing). Without the override, duckling
\* set submits the fetched flock size as it is whenever it is a non-negative
\* integer that fits in 32 bits, above 64 too, and fails with the "current
\* config missing read_scaling.flock_size" error, without a PUT, for every
\* other fetched value.
C18_FlockRange ==
    /\ (/\ argv.command = "duckling_set"
        /\ argv.flock_size.some
        /\ argv.flock_size.v \notin 0..64
        /\ pc # "parse") =>
          (exitCode = Some(USAGE) /\ calls = <<>>)
    /\ (/\ FetchedCurrent
        /\ ~argv.flock_size.some
        /\ MissingFields \cap {1, 2} = {}
        /\ pc \in {"put", "exit"}) =>
          IF FetchedFlockIsU32
          THEN /\ merged.some
               /\ merged.v.flock = Fetched("read_scaling", "flock_size").n
               /\ pc = "exit" =>
                     /\ CallsOf("PUT") = {2}
                     /\ Submitted(2, "read_scaling", "flock_size") =
                           Fetched("read_scaling", "flock_size")
          ELSE /\ pc = "exit"
               /\ exitCode = Some(FAILURE)
               /\ CallsOf("PUT") = {}
               /\ \E i \in Errors :
                     /\ stderr[i].data[1].msg = "current config missing"
                     /\ stderr[i].data[1].arg = <<"read_scaling.flock_size">>

\* Only --rw-size given and a fetched flock size of 65: the PUT submitted 65.
C18_Witness ==
    /\ FetchedCurrent /\ pc = "exit"
    /\ ~argv.flock_size.some
    /\ Fetched("read_scaling", "flock_size") = Num(<<0, 65>>)
    /\ CallsOf("PUT") = {2}
    /\ Submitted(2, "read_scaling", "flock_size") = Num(<<0, 65>>)

====
